---- MODULE Spec2Model ----
(***************************************************************************)
(* Model of src/lambda.py: a scheduled handler that lists the running EC2  *)
(* instances, skips the ones carrying an exclusion tag, stops the rest in  *)
(* one batched call and publishes a notification.                          *)
(*                                                                         *)
(* Python values are modelled as follows.  A str that the code takes apart *)
(* (EXCLUDE_TAG_VALUES, tag values) is a sequence of one-character         *)
(* strings; other strs are TLA+ strings.  A dict is a function whose       *)
(* DOMAIN is the set of keys present.  A Tags value is PyList(seq) or      *)
(* PyNone.  An exception is a record [type, msg].                          *)
(***************************************************************************)
EXTENDS Integers, Sequences, FiniteSets, TLC

VARIABLES
    environ,            \* os.environ at module load (keys present only)
    inventory,          \* EC2: instance id -> instance record
    running,            \* EC2: ids whose state is "running"
    pc,                 \* position of lambda_handler
    resp,               \* local: response of describe_instances
    instances_to_stop,  \* local: list of ids
    message,            \* local: summary message
    exc,                \* the exception bound by "except Exception as e"
    calls,              \* remote calls made by the current run, in order
    outcome,            \* how the last run ended: return value or raised error
    completed_ok,       \* history: some earlier run has returned
    instance,           \* argument of a direct should_exclude evaluation
    excluded            \* its result

vars == <<environ, inventory, running, pc, resp, instances_to_stop, message,
          exc, calls, outcome, completed_ok, instance, excluded>>

(***************************************************************************)
(* Bounds                                                                  *)
(***************************************************************************)
MaxInstances == 2      \* instances in the account
MaxReservations == 2   \* reservations in one describe_instances response
MaxTags == 2           \* entries in one instance's tag list
MaxRaw == 2            \* characters in the EXCLUDE_TAG_VALUES variable

(***************************************************************************)
(* Python helpers                                                          *)
(***************************************************************************)
PyNone == [type |-> "NoneType", val |-> <<>>]
PyList(s) == [type |-> "list", val |-> s]

\* dict.get(key, default)
Get(d, key, default) == IF key \in DOMAIN d THEN d[key] ELSE default

\* "x or []" for x a list or None: a falsy x (None, []) gives []
OrEmpty(x) == IF x.type = "NoneType" \/ x.val = <<>> THEN <<>> ELSE x.val

Range(s) == {s[i] : i \in 1..Len(s)}

\* str.isspace() of one character
IsSpace(c) == c \in {" ", "\t", "\n"}

\* str.strip(): drop leading and trailing whitespace
RECURSIVE LStrip(_)
LStrip(s) == IF s # <<>> /\ IsSpace(Head(s)) THEN LStrip(Tail(s)) ELSE s

RECURSIVE RStrip(_)
RStrip(s) ==
    IF s # <<>> /\ IsSpace(s[Len(s)]) THEN RStrip(SubSeq(s, 1, Len(s) - 1)) ELSE s

Strip(s) == RStrip(LStrip(s))

\* str.split(','): the pieces between commas; "" splits into [""]
RECURSIVE SplitFrom(_, _)
SplitFrom(s, piece) ==
    IF s = <<>> THEN <<piece>>
    ELSE IF Head(s) = "," THEN <<piece>> \o SplitFrom(Tail(s), <<>>)
    ELSE SplitFrom(Tail(s), Append(piece, Head(s)))

Split(s) == SplitFrom(s, <<>>)

\* the list comprehension [v.strip() for v in pieces if v.strip()]
RECURSIVE StripNonEmpty(_)
StripNonEmpty(pieces) ==
    IF pieces = <<>> THEN <<>>
    ELSE IF Strip(Head(pieces)) # <<>>
         THEN <<Strip(Head(pieces))>> \o StripNonEmpty(Tail(pieces))
         ELSE StripNonEmpty(Tail(pieces))

\* truthiness of an optional str read with os.environ.get(name)
Truthy(d, key) == key \in DOMAIN d /\ d[key] # ""

(***************************************************************************)
(* Module-level configuration (lambda.py lines 13-15)                      *)
(***************************************************************************)
\* faulty variant: "if SNS_TOPIC_ARN is not None"
SnsConfigured_NotNone == "SNS_TOPIC_ARN" \in DOMAIN environ

\* the test "if SNS_TOPIC_ARN:" of lines 50 and 61
SnsConfigured == Truthy(environ, "SNS_TOPIC_ARN")

SNS_TOPIC_ARN == Get(environ, "SNS_TOPIC_ARN", "None")

EXCLUDE_TAG_KEY == Get(environ, "EXCLUDE_TAG_KEY", "Environment")

\* faulty variant: the comprehension without its "if v.strip()"
EXCLUDE_TAG_VALUES_KeepEmpty ==
    LET pieces == Split(Get(environ, "EXCLUDE_TAG_VALUES", <<>>))
    IN [n \in 1..Len(pieces) |-> Strip(pieces[n])]

EXCLUDE_TAG_VALUES == StripNonEmpty(Split(Get(environ, "EXCLUDE_TAG_VALUES", <<>>)))

(***************************************************************************)
(* should_exclude (lambda.py lines 18-24)                                  *)
(***************************************************************************)
\* faulty variant: "return False" inside the loop, after the first entry
AnyTagMatches_FirstOnly(tags) ==
    IF tags = <<>> THEN FALSE
    ELSE Head(tags).Key = EXCLUDE_TAG_KEY
         /\ Head(tags).Value \in Range(EXCLUDE_TAG_VALUES)

\* faulty variant: the loop returns at the first entry that has the key
RECURSIVE AnyTagMatches_FirstKey(_)
AnyTagMatches_FirstKey(tags) ==
    IF tags = <<>> THEN FALSE
    ELSE IF Head(tags).Key = EXCLUDE_TAG_KEY
         THEN Head(tags).Value \in Range(EXCLUDE_TAG_VALUES)
         ELSE AnyTagMatches_FirstKey(Tail(tags))

\* the for loop over tags: return True at the first matching entry
RECURSIVE AnyTagMatches(_)
AnyTagMatches(tags) ==
    IF tags = <<>> THEN FALSE
    ELSE IF Head(tags).Key = EXCLUDE_TAG_KEY
            /\ Head(tags).Value \in Range(EXCLUDE_TAG_VALUES)
         THEN TRUE
         ELSE AnyTagMatches(Tail(tags))

should_exclude(inst) == AnyTagMatches(OrEmpty(Get(inst, "Tags", PyList(<<>>))))

(***************************************************************************)
(* Values exchanged with the remote services                               *)
(***************************************************************************)
Ok == [type |-> "ok", msg |-> ""]
NoExc == [type |-> "none", msg |-> ""]

\* the two kinds of exception a boto3 client call raises: ClientError (the
\* service answered with an error) and a BotoCoreError such as
\* EndpointConnectionError (no answer); both derive from Exception
ErrorText(type, op) ==
    IF type = "ClientError"
    THEN (CASE op = "describe_instances" -> "An error occurred when calling the DescribeInstances operation"
            [] op = "stop_instances" -> "An error occurred when calling the StopInstances operation"
            [] op = "publish" -> "An error occurred when calling the Publish operation")
    ELSE (CASE op = "describe_instances" -> "Could not connect to the endpoint URL of ec2"
            [] op = "stop_instances" -> "Connection to ec2 was closed before a response was received"
            [] op = "publish" -> "Could not connect to the endpoint URL of sns")

RemoteErrors(op) ==
    {[type |-> t, msg |-> ErrorText(t, op)] : t \in {"ClientError", "EndpointConnectionError"}}

\* isinstance(e, ClientError), as tested by "except ClientError"
IsClientError(e) == e.type = "ClientError"

\* faulty variant: type(e).__name__ in place of str(e)
Str_ClassName(e) == e.type

\* str(e)
Str(e) == e.msg

\* a message string: fixed text followed by the formatted list, if any
FString(text, ids) == [text |-> text, ids |-> ids]
Literal(text) == [text |-> text, ids |-> <<>>]
NoMessage == Literal("")

\* one entry of the call log
Call(op, kwargs, result) == [op |-> op, kwargs |-> kwargs, result |-> result]

NoResp == [ResponseMetadata |-> "none"]
NoOutcome == [kind |-> "none", value |-> [status |-> "", message |-> NoMessage], exc |-> NoExc]
Returned(v) == [kind |-> "return", value |-> v, exc |-> NoExc]
\* faulty variant: the raise propagates the latest exception, the one of a
\* failed error publish included
Raised_Latest(e) ==
    [kind |-> "raise", value |-> [status |-> "", message |-> NoMessage],
     exc |-> IF calls # <<>> /\ calls[Len(calls)].result # Ok
             THEN calls[Len(calls)].result ELSE e]

Raised(e) == [kind |-> "raise", value |-> [status |-> "", message |-> NoMessage], exc |-> e]

(***************************************************************************)
(* The loop of lambda_handler over the response (lambda.py lines 31-39)    *)
(***************************************************************************)
\* faulty variant: the loop without its "continue"
RECURSIVE CollectInstances_NoSkip(_)
CollectInstances_NoSkip(insts) ==
    IF insts = <<>> THEN <<>>
    ELSE <<Head(insts).InstanceId>> \o CollectInstances_NoSkip(Tail(insts))

RECURSIVE CollectInstances(_)
CollectInstances(insts) ==
    IF insts = <<>> THEN <<>>
    ELSE IF should_exclude(Head(insts))
         THEN CollectInstances(Tail(insts))
         ELSE <<Head(insts).InstanceId>> \o CollectInstances(Tail(insts))

RECURSIVE CollectReservations(_)
CollectReservations(reservations) ==
    IF reservations = <<>> THEN <<>>
    ELSE CollectInstances(Get(Head(reservations), "Instances", <<>>))
         \o CollectReservations(Tail(reservations))

Collect(r) == CollectReservations(Get(r, "Reservations", <<>>))

(***************************************************************************)
(* Inputs: environments, instance records, describe_instances responses    *)
(***************************************************************************)
SeqsUpTo(S, n) == UNION {[1..k -> S] : k \in 0..n}

Unset == <<>>    \* a dict with no key

Chars == {",", " ", "p", "P"}
TagKeys == {"Environment", "Team"}
TagValues == {<<>>, <<"p">>, <<"P">>}
TagEntries == [Key : TagKeys, Value : TagValues]

\* the instance records with a given id: no Tags key, Tags None, or a list
InstanceRecords(id, tagLists) ==
    {[InstanceId |-> id]}
    \cup {[InstanceId |-> id, Tags |-> t] : t \in {PyNone} \cup {PyList(l) : l \in tagLists}}

IdNames == <<"i-1", "i-2", "i-3", "i-4">>
InstanceIds == {IdNames[n] : n \in 1..MaxInstances}

Environs(snsOpts, keyOpts, rawOpts) ==
    {a @@ b @@ c : a \in snsOpts, b \in keyOpts, c \in rawOpts}

SnsOpts == {Unset, "SNS_TOPIC_ARN" :> "", "SNS_TOPIC_ARN" :> "arn:aws:sns:us-east-1:1:stop"}
KeyOpts == {Unset, "EXCLUDE_TAG_KEY" :> "Team"}
RawOpts == {Unset} \cup {"EXCLUDE_TAG_VALUES" :> r : r \in SeqsUpTo(Chars, MaxRaw)}

\* the configurations and taggings the handler is run under
HandlerRawOpts ==
    {Unset} \cup {"EXCLUDE_TAG_VALUES" :> r :
                    r \in {<<>>, <<" ", ",">>, <<"p">>, <<" ", "p", ",", "P">>}}
HandlerTagLists ==
    {<<[Key |-> "Environment", Value |-> <<"p">>]>>,
     <<[Key |-> "Team", Value |-> <<"P">>], [Key |-> "Environment", Value |-> <<>>]>>}

\* the orders in which the service lists the instances of S: by ascending
\* or by descending id
IdNumber(i) == CHOOSE n \in 1..Len(IdNames) : IdNames[n] = i
Orders(S) ==
    {s \in [1..Cardinality(S) -> S] :
        /\ Range(s) = S
        /\ \/ \A n \in 1..(Len(s) - 1) : IdNumber(s[n]) < IdNumber(s[n + 1])
           \/ \A n \in 1..(Len(s) - 1) : IdNumber(s[n]) > IdNumber(s[n + 1])}

\* every way to cut seq into k consecutive groups, empty groups included
Cuts(seq, k) ==
    {c \in [0..k -> 0..Len(seq)] :
        /\ c[0] = 0
        /\ c[k] = Len(seq)
        /\ \A j \in 1..k : c[j - 1] <= c[j]}

Grouped(seq, k) ==
    {[j \in 1..k |-> [Instances |-> SubSeq(seq, c[j - 1] + 1, c[j])]] : c \in Cuts(seq, k)}

\* lifecycle state of an instance, as the service reports it
StateName(i) == IF i \in running THEN "running" ELSE "stopped"

\* the instances a describe_instances request selects: those that pass
\* every instance-state-name filter of the request
Matching(kwargs) ==
    {i \in DOMAIN inventory :
        \A n \in 1..Len(kwargs.Filters) :
            kwargs.Filters[n].Name = "instance-state-name"
                => StateName(i) \in Range(kwargs.Filters[n].Values)}

\* the responses describe_instances can give when it selects the instances
\* of R: each of them once, in some order, in some reservation
DescribeResponses(inv, R) ==
    {[Reservations |-> g] :
        g \in UNION {Grouped([n \in 1..Len(o) |-> inv[o[n]]], k) :
                        o \in Orders(R), k \in 0..MaxReservations}}
    \cup (IF R = {} THEN {NoResp, [Reservations |-> <<[OwnerId |-> "self"]>>]} ELSE {})

(***************************************************************************)
(* Initial states                                                          *)
(***************************************************************************)
IdleLocals ==
    /\ resp = NoResp
    /\ instances_to_stop = <<>>
    /\ message = NoMessage
    /\ exc = NoExc
    /\ calls = <<>>
    /\ outcome = NoOutcome
    /\ completed_ok = FALSE

\* the handler: module loaded with one of envs, every instance of the account
\* running, no run yet
InitHandler(envs) ==
    /\ environ \in envs
    /\ inventory \in {f \in [InstanceIds -> UNION {InstanceRecords(i, HandlerTagLists) : i \in InstanceIds}] :
                        \A i \in InstanceIds : f[i].InstanceId = i}
    /\ running = InstanceIds
    /\ pc = "idle"
    /\ IdleLocals
    /\ instance = [InstanceId |-> "i-1"]
    /\ excluded = FALSE

Init == InitHandler(Environs(SnsOpts, KeyOpts, HandlerRawOpts))

\* the handler under every EXCLUDE_TAG_VALUES made of commas and spaces only
BlankRawOpts ==
    {Unset} \cup {"EXCLUDE_TAG_VALUES" :> r : r \in SeqsUpTo({",", " "}, MaxRaw)}

InitBlank ==
    InitHandler(Environs({Unset, "SNS_TOPIC_ARN" :> "arn:aws:sns:us-east-1:1:stop"},
                         KeyOpts, BlankRawOpts))

\* should_exclude alone: module loaded, one instance record to decide
InitExclude ==
    /\ environ \in Environs({Unset}, KeyOpts, RawOpts)
    /\ instance \in InstanceRecords("i-1", SeqsUpTo(TagEntries, MaxTags))
    /\ excluded = FALSE
    /\ inventory = <<>>
    /\ running = {}
    /\ pc = "call_should_exclude"
    /\ IdleLocals

(***************************************************************************)
(* lambda_handler (lambda.py lines 27-66), one action per remote call      *)
(***************************************************************************)
\* faulty variant: the request without its state filter
DescribeKwargs_NoFilter == [Filters |-> <<>>]

\* line 30: the request asks for the instances in the running state
DescribeKwargs ==
    [Filters |-> <<[Name |-> "instance-state-name", Values |-> <<"running">>]>>]

\* line 27: the scheduler invokes the handler; locals are fresh
Invoke ==
    /\ pc = "idle"
    /\ pc' = "describe"
    /\ resp' = NoResp
    /\ instances_to_stop' = <<>>
    /\ message' = NoMessage
    /\ exc' = NoExc
    /\ calls' = <<>>
    /\ outcome' = NoOutcome
    /\ completed_ok' = (completed_ok \/ outcome.kind = "return")
    /\ UNCHANGED <<environ, inventory, running, instance, excluded>>

\* lines 30-39: describe_instances, then the loop that fills instances_to_stop;
\* an exception of the call goes to the handler of line 58
Describe ==
    /\ pc = "describe"
    /\ \/ \E r \in DescribeResponses(inventory, Matching(DescribeKwargs)) :
            /\ resp' = r
            /\ instances_to_stop' = Collect(r)
            /\ calls' = Append(calls, Call("describe_instances", DescribeKwargs, Ok))
            /\ pc' = "stop"
            /\ exc' = exc
       \/ \E e \in RemoteErrors("describe_instances") :
            /\ calls' = Append(calls, Call("describe_instances", DescribeKwargs, e))
            /\ exc' = e
            /\ pc' = "except"
            /\ UNCHANGED <<resp, instances_to_stop>>
    /\ UNCHANGED <<environ, inventory, running, message, outcome, completed_ok,
                   instance, excluded>>

\* faulty variant: a failure of stop_instances is logged and the run goes on
\* as after a success
Stop_SwallowFailure ==
    /\ pc = "stop"
    /\ IF instances_to_stop # <<>>
       THEN /\ \/ /\ calls' = Append(calls, Call("stop_instances",
                                             [InstanceIds |-> instances_to_stop], Ok))
                  /\ running' = running \ Range(instances_to_stop)
               \/ \E e \in RemoteErrors("stop_instances") :
                    /\ calls' = Append(calls, Call("stop_instances",
                                               [InstanceIds |-> instances_to_stop], e))
                    /\ running' = running
            /\ message' = FString("Stopped EC2 instances: ", instances_to_stop)
            /\ pc' = "notify"
            /\ exc' = exc
       ELSE /\ message' = Literal("No eligible instances to stop.")
            /\ pc' = "notify"
            /\ UNCHANGED <<calls, running, exc>>
    /\ UNCHANGED <<environ, inventory, resp, instances_to_stop, outcome,
                   completed_ok, instance, excluded>>

\* faulty variant: one stop_instances call per instance instead of one batch
Stop_PerInstance ==
    /\ pc = "stop"
    /\ IF instances_to_stop # <<>>
       THEN \/ /\ calls' = calls \o [n \in 1..Len(instances_to_stop) |->
                                Call("stop_instances",
                                     [InstanceIds |-> <<instances_to_stop[n]>>], Ok)]
               /\ running' = running \ Range(instances_to_stop)
               /\ message' = FString("Stopped EC2 instances: ", instances_to_stop)
               /\ pc' = "notify"
               /\ exc' = exc
            \/ \E e \in RemoteErrors("stop_instances") :
                 /\ calls' = Append(calls, Call("stop_instances",
                                               [InstanceIds |-> <<instances_to_stop[1]>>], e))
                 /\ exc' = e
                 /\ pc' = "except"
                 /\ UNCHANGED <<running, message>>
       ELSE /\ message' = Literal("No eligible instances to stop.")
            /\ pc' = "notify"
            /\ UNCHANGED <<calls, running, exc>>
    /\ UNCHANGED <<environ, inventory, resp, instances_to_stop, outcome,
                   completed_ok, instance, excluded>>

\* lines 41-47: one batched stop_instances when the list is not empty; a
\* successful call takes the named instances out of the running state
Stop ==
    /\ pc = "stop"
    /\ IF instances_to_stop # <<>>
       THEN \/ /\ calls' = Append(calls, Call("stop_instances",
                                             [InstanceIds |-> instances_to_stop], Ok))
               /\ running' = running \ Range(instances_to_stop)
               /\ message' = FString("Stopped EC2 instances: ", instances_to_stop)
               /\ pc' = "notify"
               /\ exc' = exc
            \/ \E e \in RemoteErrors("stop_instances") :
                 /\ calls' = Append(calls, Call("stop_instances",
                                               [InstanceIds |-> instances_to_stop], e))
                 /\ exc' = e
                 /\ pc' = "except"
                 /\ UNCHANGED <<running, message>>
       ELSE /\ message' = Literal("No eligible instances to stop.")
            /\ pc' = "notify"
            /\ UNCHANGED <<calls, running, exc>>
    /\ UNCHANGED <<environ, inventory, resp, instances_to_stop, outcome,
                   completed_ok, instance, excluded>>

PublishKwargs(subject, body) ==
    [TopicArn |-> SNS_TOPIC_ARN, Subject |-> subject, Message |-> body]

\* lines 50-54: publish the summary if a topic is configured; only a
\* ClientError is caught here, any other exception goes to line 58
Notify ==
    /\ pc = "notify"
    /\ IF SnsConfigured
       THEN \/ /\ calls' = Append(calls, Call("publish",
                              PublishKwargs("EC2 Stop Notification", message), Ok))
               /\ pc' = "return"
               /\ exc' = exc
            \/ \E e \in RemoteErrors("publish") :
                 /\ calls' = Append(calls, Call("publish",
                              PublishKwargs("EC2 Stop Notification", message), e))
                 /\ IF IsClientError(e)
                    THEN pc' = "return" /\ exc' = exc
                    ELSE pc' = "except" /\ exc' = e
       ELSE /\ pc' = "return"
            /\ UNCHANGED <<calls, exc>>
    /\ UNCHANGED <<environ, inventory, running, resp, instances_to_stop, message,
                   outcome, completed_ok, instance, excluded>>

\* line 56
Return ==
    /\ pc = "return"
    /\ outcome' = Returned([status |-> "ok", message |-> message])
    /\ pc' = "idle"
    /\ UNCHANGED <<environ, inventory, running, resp, instances_to_stop, message,
                   exc, calls, completed_ok, instance, excluded>>

\* lines 58-65: the error notification; every Exception of it is swallowed
Except ==
    /\ pc = "except"
    /\ IF SnsConfigured
       THEN \E result \in {Ok} \cup RemoteErrors("publish") :
                calls' = Append(calls, Call("publish",
                              PublishKwargs("EC2 Stop Lambda Error", Literal(Str(exc))), result))
       ELSE calls' = calls
    /\ pc' = "reraise"
    /\ UNCHANGED <<environ, inventory, running, resp, instances_to_stop, message,
                   exc, outcome, completed_ok, instance, excluded>>

\* line 66: the bare raise re-raises the exception bound at line 58
Reraise ==
    /\ pc = "reraise"
    /\ outcome' = Raised(exc)
    /\ pc' = "idle"
    /\ UNCHANGED <<environ, inventory, running, resp, instances_to_stop, message,
                   exc, calls, completed_ok, instance, excluded>>

Next == Invoke \/ Describe \/ Stop \/ Notify \/ Return \/ Except \/ Reraise

Spec == Init /\ [][Next]_vars

SpecBlank == InitBlank /\ [][Next]_vars

\* a direct call of should_exclude on the drawn instance record
Evaluate ==
    /\ pc = "call_should_exclude"
    /\ excluded' = should_exclude(instance)
    /\ pc' = "should_exclude_returned"
    /\ UNCHANGED <<environ, inventory, running, resp, instances_to_stop, message,
                   exc, calls, outcome, completed_ok, instance>>

NextExclude == Evaluate

SpecExclude == InitExclude /\ [][NextExclude]_vars

TypeOK ==
    /\ pc \in {"idle", "describe", "stop", "notify", "return", "except", "reraise",
               "call_should_exclude", "should_exclude_returned"}
    /\ running \subseteq InstanceIds
    /\ outcome.kind \in {"none", "return", "raise"}
    /\ excluded \in BOOLEAN

(***************************************************************************)
(* Vocabulary of the properties                                            *)
(***************************************************************************)
CallsOf(op) == SelectSeq(calls, LAMBDA c : c.op = op)
StopCalls == CallsOf("stop_instances")
PublishCalls == CallsOf("publish")
ErrorPublishes == SelectSeq(PublishCalls, LAMBDA c : c.kwargs.Subject = "EC2 Stop Lambda Error")

RunDone == pc = "idle" /\ calls # <<>>
DescribeOk == calls # <<>> /\ calls[1].op = "describe_instances" /\ calls[1].result = Ok
StopOk == StopCalls # <<>> /\ StopCalls[1].result = Ok

\* the failed describe_instances or stop_instances calls of the run
PrimaryFailures ==
    SelectSeq(calls, LAMBDA c : c.op \in {"describe_instances", "stop_instances"}
                                 /\ c.result # Ok)

\* the instance records a response holds, whatever their grouping
FetchedInstances(r) ==
    IF "Reservations" \in DOMAIN r
    THEN UNION {IF "Instances" \in DOMAIN r.Reservations[k]
                THEN Range(r.Reservations[k].Instances) ELSE {} :
                    k \in 1..Len(r.Reservations)}
    ELSE {}
FetchedIds(r) == {i.InstanceId : i \in FetchedInstances(r)}
Eligible(r) == {i.InstanceId : i \in {j \in FetchedInstances(r) : ~should_exclude(j)}}

NoDuplicates(s) == Cardinality(Range(s)) = Len(s)

NoEligibleMessage == Literal("No eligible instances to stop.")

\* no notification target: SNS_TOPIC_ARN unset or empty
NoTopic == "SNS_TOPIC_ARN" \notin DOMAIN environ \/ environ["SNS_TOPIC_ARN"] = ""

\* C1: when the response holds a non-excluded instance, stop_instances is
\* called exactly once, with the fetched ids minus the excluded ones, each
\* once; the message built after a successful stop, and the message returned,
\* list those ids; no id outside the response is ever passed to stop_instances.
StopsExactlyEligible ==
    /\ \A n \in 1..Len(StopCalls) :
            Range(StopCalls[n].kwargs.InstanceIds) \subseteq FetchedIds(resp)
    /\ (DescribeOk /\ Eligible(resp) # {}) =>
        /\ Len(StopCalls) = (IF pc = "stop" THEN 0 ELSE 1)
        /\ \A n \in 1..Len(StopCalls) :
            /\ Range(StopCalls[n].kwargs.InstanceIds) = Eligible(resp)
            /\ NoDuplicates(StopCalls[n].kwargs.InstanceIds)
        /\ StopOk =>
            /\ message.text = "Stopped EC2 instances: "
            /\ Range(message.ids) = Eligible(resp)
            /\ NoDuplicates(message.ids)
        /\ (StopOk /\ outcome.kind = "return") =>
            outcome.value = [status |-> "ok", message |-> message]

\* a run that returned after stopping one of two fetched instances, the
\* other one being excluded, the two coming in separate reservations
StopsExactlyEligibleWitness ==
    /\ RunDone
    /\ outcome.kind = "return"
    /\ Len(StopCalls) = 1
    /\ Len(StopCalls[1].kwargs.InstanceIds) = 1
    /\ Cardinality(FetchedIds(resp)) = 2
    /\ Len(resp.Reservations) = 2

\* C2: when the response holds no non-excluded instance, stop_instances is
\* not called and the run returns status ok with the no-eligible message.
NoEligibleReturnsOk ==
    (RunDone /\ DescribeOk /\ Eligible(resp) = {}) =>
        /\ StopCalls = <<>>
        /\ outcome = Returned([status |-> "ok", message |-> NoEligibleMessage])

\* C4: when the fetch succeeded and the stop call succeeded or was not
\* needed, the run returns status ok with the summary message, whatever the
\* success-path publish did.
PublishFailureKeepsOk ==
    (RunDone /\ DescribeOk /\ (StopCalls = <<>> \/ StopOk)) =>
        outcome = Returned([status |-> "ok", message |-> message])

\* C5: a run whose describe_instances or stop_instances failed ends by
\* raising, never by returning; with a topic configured it makes exactly one
\* publish call, with the error subject and str of the error as body.
PrimaryFailureRaises ==
    PrimaryFailures # <<>> =>
        /\ pc \notin {"notify", "return"}
        /\ outcome.kind # "return"
        /\ RunDone =>
            /\ outcome.kind = "raise"
            /\ ~NoTopic =>
                /\ Len(PublishCalls) = 1
                /\ PublishCalls[1].kwargs =
                     [TopicArn |-> environ["SNS_TOPIC_ARN"],
                      Subject |-> "EC2 Stop Lambda Error",
                      Message |-> Literal(PrimaryFailures[1].result.msg)]

\* a finished run, topic configured, whose stop_instances call failed
PrimaryFailureRaisesWitness ==
    /\ RunDone
    /\ ~NoTopic
    /\ StopCalls # <<>>
    /\ StopCalls[1].result \in RemoteErrors("stop_instances")
    /\ Len(PublishCalls) = 1

\* C6: after a failed fetch or stop call the run raises that error, also
\* when the error-path publish itself failed.
RaisesOriginalError ==
    (RunDone /\ PrimaryFailures # <<>>) =>
        /\ outcome.kind = "raise"
        /\ outcome.exc = PrimaryFailures[1].result

\* a finished run whose fetch failed and whose error publish failed too
RaisesOriginalErrorWitness ==
    /\ RunDone
    /\ ~DescribeOk
    /\ Len(ErrorPublishes) = 1
    /\ ErrorPublishes[1].result \in RemoteErrors("publish")
    /\ outcome.kind = "raise"

\* C7: an error notification is published only in a run whose fetch or stop
\* call failed.
ErrorNoticeOnlyOnPrimaryFailure ==
    ErrorPublishes # <<>> => PrimaryFailures # <<>>

\* the entries of an instance's tag list; an absent or null list has none
TagsOf(inst) ==
    IF "Tags" \in DOMAIN inst /\ inst.Tags.type = "list" THEN inst.Tags.val ELSE <<>>

\* C3: should_exclude is true exactly when some entry of the tag list (an
\* absent, null or empty list has none) has the exclusion key and a value
\* equal, character for character, to one of the exempt values; with no
\* exempt value it is false.
ShouldExcludeIffTagged ==
    pc = "should_exclude_returned" =>
        /\ excluded <=>
             \E n \in 1..Len(TagsOf(instance)) :
                /\ TagsOf(instance)[n].Key = EXCLUDE_TAG_KEY
                /\ \E m \in 1..Len(EXCLUDE_TAG_VALUES) :
                     EXCLUDE_TAG_VALUES[m] = TagsOf(instance)[n].Value
        /\ EXCLUDE_TAG_VALUES = <<>> => ~excluded

\* an instance excluded on its second tag, the first one having another key
ShouldExcludeIffTaggedWitness ==
    /\ pc = "should_exclude_returned"
    /\ excluded
    /\ Len(TagsOf(instance)) = 2
    /\ TagsOf(instance)[1].Key # EXCLUDE_TAG_KEY

\* C8 as stated: a run begun after a run that returned makes no stop call
\* and returns status ok with the no-eligible message.
LaterRunReturnsNoOp ==
    (RunDone /\ completed_ok) =>
        /\ StopCalls = <<>>
        /\ outcome.kind = "return"
        /\ outcome.value = [status |-> "ok", message |-> NoEligibleMessage]

\* C8 amended: a run begun after a run that returned makes no stop call; it
\* ends by returning status ok with the no-eligible message, or by raising
\* the error of its describe_instances call or a publish error that is not
\* a ClientError.
LaterRunStopsNothing ==
    completed_ok =>
        /\ StopCalls = <<>>
        /\ RunDone =>
            \/ /\ outcome.kind = "return"
               /\ outcome.value = [status |-> "ok", message |-> NoEligibleMessage]
            \/ /\ outcome.kind = "raise"
               /\ \/ outcome.exc \in RemoteErrors("describe_instances")
                  \/ outcome.exc \in {e \in RemoteErrors("publish") : e.type # "ClientError"}

\* a run that returned, begun after an earlier run stopped some instance
LaterRunStopsNothingWitness ==
    /\ RunDone
    /\ completed_ok
    /\ running # InstanceIds
    /\ outcome.kind = "return"

\* the stop calls and the outcome that the describe and stop results determine
PrimaryOutcome ==
    /\ Len(StopCalls) = (IF DescribeOk /\ Collect(resp) # <<>> THEN 1 ELSE 0)
    /\ \A n \in 1..Len(StopCalls) : StopCalls[n].kwargs.InstanceIds = Collect(resp)
    /\ IF PrimaryFailures # <<>>
       THEN outcome.kind = "raise" /\ outcome.exc = PrimaryFailures[1].result
       ELSE /\ outcome.kind = "return"
            /\ outcome.value.status = "ok"
            /\ outcome.value.message =
                 (IF StopCalls = <<>> THEN NoEligibleMessage
                  ELSE FString("Stopped EC2 instances: ", Collect(resp)))

\* C9: with no topic no publish call is made; and a finished run with no
\* topic, like a finished run whose publish calls all succeeded, makes the
\* stop call and has the outcome that the describe and stop results alone
\* determine.
NoTopicNoPublish ==
    /\ NoTopic => PublishCalls = <<>>
    /\ (RunDone /\ (NoTopic \/ \A n \in 1..Len(PublishCalls) : PublishCalls[n].result = Ok))
            => PrimaryOutcome

\* a finished run with SNS_TOPIC_ARN set to the empty string whose stop call failed
NoTopicNoPublishWitness ==
    /\ RunDone
    /\ "SNS_TOPIC_ARN" \in DOMAIN environ
    /\ NoTopic
    /\ StopCalls # <<>>
    /\ PrimaryFailures # <<>>

\* EXCLUDE_TAG_VALUES is unset, empty or made of commas and spaces only
BlankRaw ==
    "EXCLUDE_TAG_VALUES" \in DOMAIN environ =>
        \A n \in 1..Len(environ["EXCLUDE_TAG_VALUES"]) :
            environ["EXCLUDE_TAG_VALUES"][n] \in {",", " "}

\* C10: when EXCLUDE_TAG_VALUES is unset, empty or made of commas and
\* whitespace only, every fetched instance id is collected and every stop
\* request names every fetched id.
BlankExcludesNothing ==
    BlankRaw =>
        /\ DescribeOk => Range(instances_to_stop) = FetchedIds(resp)
        /\ \A n \in 1..Len(StopCalls) :
              Range(StopCalls[n].kwargs.InstanceIds) = FetchedIds(resp)

\* a successful stop of two tagged instances under a value list of a comma
\* and a space
BlankExcludesNothingWitness ==
    /\ "EXCLUDE_TAG_VALUES" \in DOMAIN environ
    /\ BlankRaw
    /\ Len(environ["EXCLUDE_TAG_VALUES"]) = 2
    /\ StopOk
    /\ Len(StopCalls[1].kwargs.InstanceIds) = 2
    /\ \A i \in FetchedInstances(resp) : TagsOf(i) # <<>> /\ TagsOf(i)[1].Key = EXCLUDE_TAG_KEY

\* the operations of the remote calls of the run, in order
Ops == [n \in 1..Len(calls) |-> calls[n].op]

\* C11: in every run describe_instances is the first remote call and is
\* made exactly once; stop_instances is not called when the fetch failed, is
\* called at most once, and never after a publish call.
CallsInOrder ==
    /\ pc \notin {"idle", "describe"} => calls # <<>>
    /\ calls # <<>> =>
        /\ Ops[1] = "describe_instances"
        /\ Len(CallsOf("describe_instances")) = 1
    /\ ~DescribeOk => StopCalls = <<>>
    /\ Len(StopCalls) <= 1
    /\ \A n \in 1..Len(calls) : \A m \in 1..Len(calls) :
            (n < m /\ Ops[n] = "publish") => Ops[m] # "stop_instances"

\* a finished run that fetched, stopped two instances, then published
CallsInOrderWitness ==
    /\ RunDone
    /\ Ops = <<"describe_instances", "stop_instances", "publish">>
    /\ Len(calls[2].kwargs.InstanceIds) = 2

\* a stop_instances call on exactly ids succeeded among the first k calls
StoppedBefore(ids, k) ==
    \E m \in 1..k :
        /\ calls[m].op = "stop_instances"
        /\ calls[m].result = Ok
        /\ calls[m].kwargs.InstanceIds = ids

IsStoppedReport(msg) == msg.text = "Stopped EC2 instances: "

\* C12: a publish with subject "EC2 Stop Notification" and a "Stopped EC2
\* instances" body, and a returned outcome with that message, occur only
\* after a stop_instances call on exactly the listed ids succeeded in the
\* same run; a run whose stop call failed publishes and returns no such
\* message.
SuccessReportTruthful ==
    /\ \A n \in 1..Len(calls) :
        (/\ calls[n].op = "publish"
         /\ calls[n].kwargs.Subject = "EC2 Stop Notification"
         /\ IsStoppedReport(calls[n].kwargs.Message))
            => StoppedBefore(calls[n].kwargs.Message.ids, n - 1)
    /\ (outcome.kind = "return" /\ IsStoppedReport(outcome.value.message))
            => StoppedBefore(outcome.value.message.ids, Len(calls))
    /\ (StopCalls # <<>> /\ ~StopOk) =>
        /\ \A n \in 1..Len(PublishCalls) : ~IsStoppedReport(PublishCalls[n].kwargs.Message)
        /\ outcome.kind # "return"

\* a finished run that stopped instances, published the report and returned it
SuccessReportTruthfulWitness ==
    /\ RunDone
    /\ StopOk
    /\ Len(PublishCalls) = 1
    /\ PublishCalls[1].result = Ok
    /\ IsStoppedReport(PublishCalls[1].kwargs.Message)
    /\ outcome.kind = "return"
    /\ outcome.value.message = PublishCalls[1].kwargs.Message

\* the positions of the entries of the drawn instance that have the exclusion key
KeyEntries == {n \in 1..Len(TagsOf(instance)) : TagsOf(instance)[n].Key = EXCLUDE_TAG_KEY}
FirstKeyEntry == CHOOSE n \in KeyEntries : \A m \in KeyEntries : n <= m
IsExempt(n) == \E m \in 1..Len(EXCLUDE_TAG_VALUES) :
                    EXCLUDE_TAG_VALUES[m] = TagsOf(instance)[n].Value

\* C13 as stated: with several entries that have the exclusion key,
\* should_exclude is true exactly when the value of the first of them is an
\* exempt value.
FirstOccurrenceDecides ==
    (pc = "should_exclude_returned" /\ Cardinality(KeyEntries) >= 2) =>
        (excluded <=> IsExempt(FirstKeyEntry))

\* C13 amended: with several entries that have the exclusion key,
\* should_exclude is true exactly when the value of at least one of them,
\* first or later, is an exempt value; so an exempt first value gives true
\* whatever the later entries hold.
AnyOccurrenceDecides ==
    (pc = "should_exclude_returned" /\ Cardinality(KeyEntries) >= 2) =>
        /\ excluded <=> \E n \in KeyEntries : IsExempt(n)
        /\ IsExempt(FirstKeyEntry) => excluded

\* two entries with the exclusion key, only the second value exempt: excluded
AnyOccurrenceDecidesWitness ==
    /\ pc = "should_exclude_returned"
    /\ KeyEntries = {1, 2}
    /\ ~IsExempt(1)
    /\ IsExempt(2)
    /\ excluded

====
